---- MODULE Spec2Model ----
(***************************************************************************)
(* Model of the ILI9341 driver of src/ili9341/lcd.py.                      *)
(*                                                                         *)
(* One driver instance is modelled.  Its fields are the ones ILI.__init__  *)
(* assigns (_portrait, curWidth, curHeight) and the two control pins the   *)
(* bus protocol drives (csPin, dcPin).  Every public method is one action; *)
(* a method is an operator from the instance record to the instance        *)
(* record, written in the order of the statements of the source.  An       *)
(* exception is the field err of the record: once it is set, every later   *)
(* statement of the method is skipped, as a propagating exception does.    *)
(*                                                                         *)
(* call, err, bus, ret and pins observe the most recent call: its name and *)
(* arguments, the exception it ended with, the transactions it put on the  *)
(* SPI bus, the value it returned and the pins it configured.  again tells *)
(* whether it repeats the call before it, and win is the window it last    *)
(* handed to _set_window.  cacheDir is the cache directory of the file      *)
(* system.                                                                 *)
(***************************************************************************)
EXTENDS Integers, Sequences, FiniteSets, TLC

VARIABLES
    _portrait,     \* ILI._portrait
    curWidth,      \* ILI.curWidth
    curHeight,     \* ILI.curHeight
    csPin,         \* level of the chip-select pin (0 = asserted)
    dcPin,         \* level of the data/command pin (0 = command)
    call,          \* the most recent call: [op, a]
    again,         \* the most recent call repeats the call before it
    err,           \* the exception the most recent call raised, or "none"
    bus,           \* the transactions the most recent call issued
    ret,           \* the value the most recent call returned
    pins,          \* the pins the most recent call configured
    win,           \* the window the most recent call last asked _set_window for
    cacheDir       \* the bitmaps that have a record in the cache directory

vars == <<_portrait, curWidth, curHeight, csPin, dcPin, call, again, err, bus, ret, pins,
          win, cacheDir>>

----------------------------------------------------------------------------
(* constants.py *)

HSPI == 1
VSPI == 2
TFTWIDTH == 240
TFTHEIGHT == 320
SWRESET == 1
SLPOUT == 17
PTLON == 18
GAMMASET == 38
LCDOFF == 40
LCDON == 41
CASET == 42
PASET == 43
RAMWR == 44
RAMRD == 46
MADCTL == 54
PIXFMT == 58
ETMOD == 183

(* colors.py is not part of the sources at hand; the two colours           *)
(* _get_Npix_monoword compares with are taken as the RGB565 triples of     *)
(* white and black.                                                        *)
WHITE == <<31, 63, 31>>
BLACK == <<0, 0, 0>>

----------------------------------------------------------------------------
(* Python values and integer operations *)

\* None where an int, a bool or a str may stand, and where a tuple may stand
None == [t |-> "none", v |-> 0]
NoneT == [t |-> "none", v |-> <<>>]
IsNone(x) == x.t = "none"
PyBool(b) == [t |-> "bool", v |-> IF b THEN 1 ELSE 0]
PyInt(n) == [t |-> "int", v |-> n]
PyStr == [t |-> "str", v |-> 0]

\* isinstance(x, bool)
isinstance_bool(x) == x.t = "bool"

Min(a, b) == IF a < b THEN a ELSE b

RECURSIVE BitOr(_, _)
\* a | b on non-negative integers
BitOr(a, b) ==
    IF a = 0 THEN b
    ELSE IF b = 0 THEN a
    ELSE (IF a % 2 = 1 \/ b % 2 = 1 THEN 1 ELSE 0) + 2 * BitOr(a \div 2, b \div 2)

\* a << k
Shl(a, k) == a * (2 ^ k)

\* struct.pack('>H', word): two bytes, most significant first
\* (MicroPython's pack keeps the low 16 bits of the value)
packH(word) == <<(word \div 256) % 256, word % 256>>

\* a word handed to the bus: explicit bytes, a byte pattern repeated n times
\* (bytes * n), or bytes read from a file
Bytes(s) == [bytes |-> s, pat |-> <<>>, n |-> 0, file |-> <<>>]
Rep(p, k) == [bytes |-> <<>>, pat |-> p, n |-> k, file |-> <<>>]
\* k bytes read from a file at offset off; rev = 1 when each byte pair is
\* swapped (_reverse) before the write
FileBytes(off, k, rev) == [bytes |-> <<>>, pat |-> <<>>, n |-> 0, file |-> <<off, k, rev>>]
WordLen(w) ==
    Len(w.bytes) + Len(w.pat) * w.n + (IF w.file = <<>> THEN 0 ELSE w.file[2])

----------------------------------------------------------------------------
(* class ILI *)

\* raise <exc>
Raise(o, exc) == IF o.err # "none" THEN o ELSE [o EXCEPT !.err = exc]

\* ILI._write: chip-select low, data/command level, transfer; the write path
\* ends on the undefined name slef, so chip-select is not raised again and
\* NameError propagates.  The read path raises chip-select and returns.
_write(o, word, command, read) ==
    IF o.err # "none" THEN o
    ELSE LET o1 == [o EXCEPT !.cs = 0,
                             !.dc = IF command THEN 0 ELSE 1,
                             !.bus = Append(@, [dc |-> IF command THEN 0 ELSE 1,
                                                read |-> read,
                                                word |-> word])]
         IN  IF read THEN [o1 EXCEPT !.cs = 1]
             ELSE [o1 EXCEPT !.err = "NameError"]

_write_cmd(o, word) == _write(o, Bytes(<<word>>), TRUE, FALSE)

_write_cmd_read(o, word) == _write(o, Bytes(<<word, 0, 0, 0, 0>>), TRUE, TRUE)

_write_data(o, word) == _write(o, word, FALSE, FALSE)

\* pack('>NB', *words) then _write_data
_write_words(o, words) ==
    _write_data(o, Bytes([i \in 1..Len(words) |-> words[i] % 256]))

_graph_orientation(o) ==
    _write_data(_write_cmd(o, MADCTL), Bytes(<<IF o.portrait THEN 72 ELSE 40>>))

_char_orientation(o) ==
    _write_data(_write_cmd(o, MADCTL), Bytes(<<IF o.portrait THEN 232 ELSE 88>>))

_image_orientation(o) ==
    _write_data(_write_cmd(o, MADCTL), Bytes(<<IF o.portrait THEN 200 ELSE 104>>))

\* `if ILI.portrait:` tests the property object of the class, which is
\* always true
ILI_portrait_truth == TRUE

\* setDimensions as it would be if it swapped the current sizes
setDimensions_swaps(o) ==
    IF o.err # "none" THEN o
    ELSE _graph_orientation([o EXCEPT !.curHeight = o.curWidth,
                                      !.curWidth = o.curHeight])

setDimensions(o) ==
    IF o.err # "none" THEN o
    ELSE _graph_orientation(
             IF ILI_portrait_truth
             THEN [o EXCEPT !.curHeight = TFTHEIGHT, !.curWidth = TFTWIDTH]
             ELSE [o EXCEPT !.curHeight = TFTWIDTH, !.curWidth = TFTHEIGHT])

_set_window(o, x0, y0, x1, y1) ==
    LET o0 == IF o.err # "none" THEN o ELSE [o EXCEPT !.win = <<x0, y0, x1, y1>>]
        o1 == _write_cmd(o0, CASET)
        o2 == _write_words(o1, <<(x0 \div 256) % 256, x0 % 256,
                                 (y0 \div 256) % 256, y0 % 256>>)
        o3 == _write_cmd(o2, PASET)
        o4 == _write_words(o3, <<(x1 \div 256) % 256, x1 % 256,
                                 (y1 \div 256) % 256, y1 % 256>>)
    IN  _write_cmd(o4, RAMWR)

_get_Npix_monoword(color) ==
    IF color = WHITE THEN packH(65535)
    ELSE IF color = BLACK THEN packH(0)
    ELSE packH(BitOr(BitOr(Shl(color[1], 11), Shl(color[2], 5)), color[3]))

\* rgbTo565 as it would be if green were reduced to 5 bits
rgbTo565_green5(r, g, b) == <<r \div 8, g \div 8, b \div 8>>

rgbTo565(r, g, b) == <<r \div 8, g \div 4, b \div 8>>

\* the setter as it would be if it assigned before it checked the type
portrait_setter_late_check(o, portr) ==
    IF o.err # "none" THEN o
    ELSE LET o1 == [o EXCEPT !.portrait = (portr.v = 1)]
         IN  IF ~isinstance_bool(portr) THEN Raise(o1, "PortraitBoolError")
             ELSE setDimensions(o1)

\* portrait.setter (ILI, Chars and LCD carry the same body)
portrait_setter(o, portr) ==
    IF o.err # "none" THEN o
    ELSE IF ~isinstance_bool(portr) THEN Raise(o, "PortraitBoolError")
    ELSE setDimensions([o EXCEPT !.portrait = (portr.v = 1)])

----------------------------------------------------------------------------
(* ILI.__init__, ILI.reset *)

\* Pin(id, Pin.OUT)
Pin(o, name) == IF o.err # "none" THEN o ELSE [o EXCEPT !.pins = @ \cup {name}]

\* SPI(port, baudrate=rate): the parameter is called baud, and the name rate
\* is bound nowhere in the module
SPI(o, port) == Raise(o, "NameError")

reset(o) ==
    IF ~IsNone(o.rst) THEN o       \* rstPin.off(); sleep; rstPin.on(); return
    ELSE _write_cmd(o, SWRESET)

\* self.initDisplay(): the class defines _initILI, and no initDisplay
initDisplay(o) == Raise(o, "AttributeError")

\* the initialisation sequence the class defines; nothing calls it
_initILI(o) ==
    LET o1 == _write_cmd(_write_cmd(o, LCDOFF), SWRESET)
        o2 == _write_cmd(_graph_orientation(o1), PTLON)
        o3 == _write_data(_write_cmd(o2, PIXFMT), Bytes(<<85>>))
        o4 == _write_data(_write_cmd(o3, GAMMASET), Bytes(<<1>>))
        o5 == _write_data(_write_cmd(o4, ETMOD), Bytes(<<7>>))
    IN  _write_cmd(_write_cmd(_write_cmd(o5, SLPOUT), LCDON), RAMWR)

\* the object under construction, before the first statement of __init__
NewObject(rst) ==
    [portrait |-> TRUE, curWidth |-> 0, curHeight |-> 0, cs |-> 1, dc |-> 1,
     bus |-> <<>>, err |-> "none", pins |-> {}, rst |-> rst, win |-> <<>>,
     cache |-> {}]

\* __init__ as it would be if the port were checked after the pins are set up
ILI_init_late_port_check(cs, dc, rst, bl, port, portr) ==
    LET o0 == NewObject(rst)
    IN  IF IsNone(cs) \/ IsNone(dc) THEN Raise(o0, "RuntimeError")
        ELSE LET o1 == Pin(Pin(o0, "cs"), "dc")
             IN  IF (port # HSPI /\ port # VSPI) THEN Raise(o1, "RuntimeError")
                 ELSE SPI(o1, port)

ILI_init(cs, dc, rst, bl, port, portr) ==
    LET o0 == NewObject(rst)
    IN  IF IsNone(cs) \/ IsNone(dc) THEN Raise(o0, "RuntimeError")
        ELSE IF (port # HSPI /\ port # VSPI) THEN Raise(o0, "RuntimeError")
        ELSE LET o1 == Pin(Pin(o0, "cs"), "dc")
                 o2 == IF ~IsNone(rst) THEN Pin(o1, "rst") ELSE o1
                 o3 == IF ~IsNone(bl) THEN Pin(o2, "bl") ELSE o2
                 o4 == SPI(o3, port)
                 o5 == IF o4.err # "none" THEN o4
                       ELSE [o4 EXCEPT !.portrait = portr,
                                       !.curHeight = TFTHEIGHT,
                                       !.curWidth = TFTWIDTH]
             IN  initDisplay(reset(o5))

----------------------------------------------------------------------------
(* class BaseDraw *)

_set_ortho_line(o, width, length, color) ==
    LET pixels == width * (length + 1)
    IN  _write_data(o, Rep(_get_Npix_monoword(color), pixels))

drawPixel(o, x, y, color) ==
    _write_data(_set_window(o, x, x, y, y), Rep(_get_Npix_monoword(color), 1))

drawVline(o, x, y, length0, color, width0) ==
    LET length == IF length0 > o.curHeight THEN o.curHeight ELSE length0
        width == IF width0 > 10 THEN 10 ELSE width0
    IN  _set_ortho_line(_set_window(o, x, x + (width - 1), y, y + length - 1),
                        width, length, color)

drawHline(o, x, y, length0, color, width0) ==
    LET length == IF length0 > o.curWidth THEN o.curWidth ELSE length0
        width == IF width0 > 10 THEN 10 ELSE width0
    IN  _set_ortho_line(_set_window(o, x, x + length - 1, y, y + (width - 1)),
                        width, length, color)

\* abs(v)
Abs(v) == IF v < 0 THEN -v ELSE v

\* trunc(n / d): the quotient rounded toward zero
Trunc(n, d) ==
    LET q == Abs(n) \div Abs(d)
    IN  IF (n < 0) = (d < 0) THEN q ELSE -q

RECURSIVE drawLineSteep(_, _, _, _, _, _, _)
\* for i in range(x1 - x + 1), with r = dy / dx and dx > 0: a pixel at
\* i = 0, then a vertical run per column
drawLineSteep(o, x, y, dx, dy, color, i) ==
    IF i > dx \/ o.err # "none" THEN o
    ELSE LET o1 == IF i = 0 THEN drawPixel(o, x + i, Trunc(y * dx, dx), color)
                   ELSE drawVline(o, x + i,
                                  Trunc(y * dx + dy * (i - 1), dx)
                                      + (IF dy > 0 THEN 0 ELSE Trunc(dy, dx)),
                                  Abs(Trunc(dy, dx)), color, 1)
         IN  drawLineSteep(o1, x, y, dx, dy, color, i + 1)

RECURSIVE drawLineShallow(_, _, _, _, _, _, _)
\* for i in range(y1 - y + 1), with r = dx / dy and dy > 0: a pixel at
\* i = 0, then a horizontal run per row
drawLineShallow(o, x, y, dx, dy, color, i) ==
    IF i > dy \/ o.err # "none" THEN o
    ELSE LET o1 == IF i = 0 THEN drawPixel(o, Trunc(x * dy, dy), y + i, color)
                   ELSE drawHline(o,
                                  Trunc(x * dy + dx * (i - 1), dy)
                                      + (IF dx > 0 THEN 0 ELSE Trunc(dx, dy)),
                                  y + i, Abs(Trunc(dx, dy)), color, 1)
         IN  drawLineShallow(o1, x, y, dx, dy, color, i + 1)

\* r = (y1 - y) / (x1 - x) is kept as the pair dy, dx; the quotients are
\* exact, which the float arithmetic of the code is for slopes that are a
\* power of two
drawLine(o, x, y, x1, y1, color) ==
    IF x = x1 THEN drawVline(o, x, IF y <= y1 THEN y ELSE y1, Abs(y1 - y), color, 1)
    ELSE IF y = y1
    THEN drawHline(o, IF x <= x1 THEN x ELSE x1, y, Abs(x - x1), color, 1)
    ELSE LET xa == IF x1 < x THEN x1 ELSE x
             ya == IF x1 < x THEN y1 ELSE y
             xb == IF x1 < x THEN x ELSE x1
             yb == IF x1 < x THEN y ELSE y1
         IN  IF Abs(yb - ya) >= Abs(xb - xa)
             THEN drawLineSteep(o, xa, ya, xb - xa, yb - ya, color, 0)
             ELSE LET xc == IF yb < ya THEN xb ELSE xa
                      yc == IF yb < ya THEN yb ELSE ya
                      xd == IF yb < ya THEN xa ELSE xb
                      yd == IF yb < ya THEN ya ELSE yb
                  IN  drawLineShallow(o, xc, yc, xd - xc, yd - yc, color, 0)

RECURSIVE WriteTimes(_, _, _)
\* while i < times: self._write_data(word); i += 1
WriteTimes(o, word, times) ==
    IF times <= 0 \/ o.err # "none" THEN o
    ELSE WriteTimes(_write_data(o, word), word, times - 1)

\* the two passes of `for i in range(2)` that draw the border bands
drawRectBands(o, x, y, width, height, color, border) ==
    LET Yv == IF border > 1 THEN y + 1 ELSE y
        H == IF border > 1 THEN height ELSE height + 1
        a1 == drawHline(o, x, y, width, color, border)
        a2 == drawVline(a1, x, Yv, H, color, border)
        b1 == drawHline(a2, x, y + height - (border - 1), width, color, border)
    IN  drawVline(b1, x + width - (border - 1), Yv, H, color, border)

\* the fill of the interior, `if infill:`
drawRectInfill(o, x, y, width, height, border, infill) ==
    LET xsum == x + border
        ysum == y + border
        dborder == border * 2
        portion == 32
        pixels0 == width * (height \div portion + 1)
        pixels == IF height >= portion THEN pixels0 ELSE (width * height) \div 3 + 1
        times == IF height < portion + 1 THEN 16 * 2 ELSE portion + 1
        o1 == _set_window(o, xsum, xsum + width - dborder, ysum, ysum + height - dborder)
    IN  WriteTimes(o1, Rep(_get_Npix_monoword(infill), pixels), times)

\* border and infill are Python values: None, or an int / a colour triple in v
drawRect(o, x, y, width0, height0, color, border0, infill0) ==
    LET border1 == IF IsNone(border0) THEN 0 ELSE border0.v
        border2 == IF border1 > 10 THEN 10 ELSE border1
        width1 == IF width0 > o.curWidth THEN o.curWidth ELSE width0
        height1 == IF height0 > o.curHeight THEN o.curHeight ELSE height0
        height == IF height1 < 2 THEN 2 ELSE height1
        width == IF width1 < 2 THEN 2 ELSE width1
        o1 == _graph_orientation(o)
        border == IF border2 > 0 /\ border2 > width \div 2
                  THEN width \div 2 - 1 ELSE border2
        o2 == IF border2 > 0
              THEN drawRectBands(o1, x, y, width, height, color, border)
              ELSE o1
        infill == IF border2 > 0 THEN infill0 ELSE [t |-> "color", v |-> color]
    IN  IF ~IsNone(infill)
        THEN drawRectInfill(o2, x, y, width, height, border, infill.v)
        ELSE o2

fillMonocolor(o, color, margin0) ==
    LET margin == IF margin0 > 80 THEN 80 ELSE margin0
        width == o.curWidth - margin * 2
        height == o.curHeight - margin * 2
    IN  drawRect(o, margin, margin, width, height, color, PyInt(0), NoneT)

----------------------------------------------------------------------------
(* class BaseImages *)

\* a bitmap file: bm tells whether its first two bytes are "BM"; startbit,
\* width and height are the header fields at offsets 10, 18 and 22; size is
\* the length of the file
_set_image_headers(o, f) ==
    IF o.err # "none" THEN o
    ELSE IF ~f.bm THEN Raise(o, "BMPvalidationError")
    ELSE o

\* pos is None or a pair
_get_image_points(o, pos, width, height) ==
    IF ~IsNone(pos) THEN pos.v
    ELSE <<IF width = o.curWidth THEN 0 ELSE (o.curWidth - width) \div 2,
           IF height = o.curHeight THEN 0 ELSE (o.curHeight - height) \div 2>>

RECURSIVE StreamLoop(_, _, _, _, _)
\* while True: try: data = f.read(memread); ...; self._write_data(data)
\*             except OSError: break
\* read returns b'' at the end of the file and raises nothing, so a loop that
\* reaches the end of the file never leaves it: "hang"
StreamLoop(o, off, size, memread, rev) ==
    IF o.err # "none" THEN o
    ELSE IF off >= size
         THEN Raise(_write_data(o, FileBytes(off, 0, rev)), "hang")
         ELSE LET k == Min(memread, size - off)
              IN  StreamLoop(_write_data(o, FileBytes(off, k, rev)),
                             off + k, size, memread, rev)

_render_bmp_image(o, f, pos) ==
    LET memread == 512
        o1 == _set_image_headers(o, f)
        width == IF f.width < o.curWidth THEN f.width - 1 ELSE f.width
        xy == _get_image_points(o, pos, width, f.height)
        o2 == _set_window(o1, xy[1], width + xy[1], xy[2], f.height + xy[2])
    IN  IF o1.err # "none" THEN o1
        ELSE StreamLoop(o2, f.startbit, f.size, memread, 1)

\* the cache record of f: width and height, each as two bytes and a newline,
\* then the pixel stream; the stream is read from offset startbit = 8
_render_bmp_cache(o, f, pos) ==
    LET startbit == 8
        memread == 1024 * 6
        width == IF f.width < o.curWidth THEN f.width - 1 ELSE f.width
        xy == _get_image_points(o, pos, width, f.height)
        o1 == _set_window(o, xy[1], width + xy[1], xy[2], f.height + xy[2])
    IN  StreamLoop(o1, startbit, 6 + (f.size - f.startbit), memread, 0)

renderBmp(o, f, pos, cached, bgcolor, incache) ==
    LET o1 == portrait_setter(o, PyBool(TRUE))
        o2 == IF ~IsNone(bgcolor) THEN fillMonocolor(o1, bgcolor.v, 0) ELSE o1
        o3 == _image_orientation(o2)
        notcached == ~incache
        o4 == IF ~cached \/ notcached THEN _render_bmp_image(o3, f, pos)
              ELSE _render_bmp_cache(o3, f, pos)
    IN  _graph_orientation(o4)

\* Chars(portrait=ILI.portrait, **kwargs): the constructor of ILI with its
\* default pins and port
initCh(o) ==
    IF o.err # "none" THEN o
    ELSE Raise(o, ILI_init(PyStr, PyStr, None, None, VSPI, TRUE).err)

\* the cache record of f is written once the headers of f are read; the
\* two printLn calls in between and at the end run on the object initCh
\* returns
cacheImage(o, f) ==
    LET o1 == portrait_setter(o, PyBool(TRUE))
        o2 == initCh(fillMonocolor(o1, BLACK, 0))
        o3 == _set_image_headers(o2, f)
        o4 == IF o3.err # "none" THEN o3 ELSE [o3 EXCEPT !.cache = @ \cup {f}]
    IN  fillMonocolor(o4, BLACK, 0)

----------------------------------------------------------------------------
(* class BaseChars: reading a pixel back *)

\* data is the five bytes of a memory read.  unpack('<BI') drops the first
\* byte and reads the other four as a 32-bit value, least significant byte
\* first (I holds its base-256 digits, least significant first), pack('>I')
\* writes them most significant first, and unpack('>3B') takes the first
\* three.
_decode_spi_data(data) ==
    LET I == <<data[2], data[3], data[4], data[5]>>
        p == <<I[4], I[3], I[2], I[1]>>
        d == <<p[1], p[2], p[3]>>
        red == Shl((d[3] \div 4) % 32, 11)
        green == Shl((d[2] \div 2) % 64, 5)
        blue == (d[1] \div 4) % 32
    IN  packH(BitOr(BitOr(red, green), blue))

\* self._decode_recv_data(data): no class defines a method of that name
_decode_recv_data(o, data) == Raise(o, "AttributeError")

\* resp is what the controller answers to the memory read; the result is the
\* instance after the call and the value returned (<<>> when it raises)
_get_bgcolor(o, x, y, resp) ==
    LET o1 == _write_cmd_read(_set_window(o, x, x, y, y), RAMRD)
        o2 == _decode_recv_data(o1, resp)
    IN  [o |-> o2, ret |-> IF o2.err = "none" THEN _decode_spi_data(resp) ELSE <<>>]

----------------------------------------------------------------------------
(* class BaseChars: printing a character *)

\* bgcolor is the background colour of the Chars object (None, or a colour
\* triple in v), color its font colour and bits the number of bits of the
\* glyph rows; of the word written only the length is kept, scale * scale
\* pixels per bit
_fill_bicolor(o, bits, x, y, width, height, scale, bgcolor, color, resp) ==
    LET o1 == IF IsNone(bgcolor) THEN _get_bgcolor(o, x, y, resp).o ELSE o
        o2 == _set_window(o1, x, x + (height * scale) - 1, y, y + (width * scale))
        o3 == _write_data(o2, Rep(_get_Npix_monoword(color), bits * scale * scale))
    IN  _graph_orientation(o3)

\* self.fontscale = ...: fontscale is a property of Chars that has no setter
fontscale_setter(o) == Raise(o, "AttributeError")

\* glyph is the entry of the font for the character (known = FALSE when the
\* font has none, the KeyError branch), font the height and width of the
\* font
printChar(o, glyph, font, x, y, scale0, bgcolor, color, resp) ==
    LET o1 == fontscale_setter(o)
        scale == IF scale0 >= 5 THEN 5 ELSE scale0
        chrwidth == (IF glyph.known THEN glyph.len ELSE font.width) * scale
        X == o.curHeight - y - (font.height * scale) + scale
        Y == x
        o2 == _char_orientation(o1)
    IN  IF ~glyph.known
        THEN drawRect(_graph_orientation(o2), x, y, font.height, chrwidth, color,
                      PyInt(2 * scale), NoneT)
        ELSE _fill_bicolor(o2, glyph.bits, X, Y, chrwidth, font.height, scale,
                           bgcolor, color, resp)

----------------------------------------------------------------------------
(* the instance and the observation of a call *)

Self ==
    [portrait |-> _portrait, curWidth |-> curWidth, curHeight |-> curHeight,
     cs |-> csPin, dc |-> dcPin, bus |-> <<>>, err |-> "none", pins |-> {},
     rst |-> None, win |-> <<>>, cache |-> cacheDir]

NoArg == <<>>

SameCall(c, d) == c.op = d.op /\ c.a = d.a

\* the state after a call c that left the instance as o and returned r
Commit(o, c, r) ==
    /\ _portrait' = o.portrait
    /\ curWidth' = o.curWidth
    /\ curHeight' = o.curHeight
    /\ csPin' = o.cs
    /\ dcPin' = o.dc
    /\ bus' = o.bus
    /\ err' = o.err
    /\ call' = c
    /\ again' = SameCall(c, call)
    /\ ret' = r
    /\ pins' = o.pins
    /\ win' = o.win
    /\ cacheDir' = o.cache

\* the state after a call c that built another object o and touched nothing
\* of the instance
CommitNew(o, c) ==
    /\ UNCHANGED <<_portrait, curWidth, curHeight, csPin, dcPin, cacheDir>>
    /\ bus' = o.bus
    /\ err' = o.err
    /\ call' = c
    /\ again' = SameCall(c, call)
    /\ ret' = NoArg
    /\ pins' = o.pins
    /\ win' = <<>>

\* the state after a call c of a method that reads no field and returned r
CommitPure(c, r) ==
    /\ UNCHANGED <<_portrait, curWidth, curHeight, csPin, dcPin, cacheDir>>
    /\ bus' = <<>>
    /\ err' = "none"
    /\ call' = c
    /\ again' = SameCall(c, call)
    /\ ret' = r
    /\ pins' = {}
    /\ win' = <<>>

----------------------------------------------------------------------------
(* actions *)

PortraitValues == {PyBool(TRUE), PyBool(FALSE), PyInt(0), PyInt(1), PyStr, None}

\* lcd.portrait = portr
SetPortrait ==
    \E portr \in PortraitValues :
        Commit(portrait_setter(Self, portr), [op |-> "portrait", a |-> <<portr>>], NoArg)

PyColor(c) == [t |-> "color", v |-> c]

\* the colours handed to the drawing calls, as RGB565 triples
SampleColor == <<31, 0, 0>>
Colors == {SampleColor, WHITE, BLACK}

\* origins, and the lengths, widths and heights handed to the drawing calls
MaxOrigin == 1
Origins == {<<i, 2 * i>> : i \in 0..MaxOrigin}
Lengths == {1, 10, TFTWIDTH, TFTWIDTH + 1, TFTHEIGHT + 1}
RectWidths == {1, 10, TFTWIDTH + 1}
RectHeights == {10, 33, TFTHEIGHT + 1}
Borders == {None, PyInt(0), PyInt(2), PyInt(11)}
Infills == {NoneT, PyColor(BLACK)}
LineWidths == {1, 11}
Margins == {0, 40, 81}

DrawPixel ==
    \E p \in Origins, color \in Colors :
        Commit(drawPixel(Self, p[1], p[2], color),
               [op |-> "drawPixel", a |-> <<p[1], p[2], color>>], NoArg)

DrawVline ==
    \E p \in Origins, length \in Lengths, width \in LineWidths :
        Commit(drawVline(Self, p[1], p[2], length, SampleColor, width),
               [op |-> "drawVline", a |-> <<p[1], p[2], length, SampleColor, width>>], NoArg)

DrawHline ==
    \E p \in Origins, length \in Lengths, width \in LineWidths :
        Commit(drawHline(Self, p[1], p[2], length, SampleColor, width),
               [op |-> "drawHline", a |-> <<p[1], p[2], length, SampleColor, width>>], NoArg)

DrawRect ==
    \E p \in Origins, width \in RectWidths, height \in RectHeights,
       border \in Borders, infill \in Infills :
        Commit(drawRect(Self, p[1], p[2], width, height, SampleColor, border, infill),
               [op |-> "drawRect",
                a |-> <<p[1], p[2], width, height, SampleColor, border, infill>>],
               NoArg)

\* endpoints <<x, y, x1, y1>>: vertical, horizontal, a single point, and
\* slopes 2, 1/2, 1 and -1, each in both directions
Lines ==
    {<<0, 0, 0, 3>>, <<0, 3, 0, 0>>, <<0, 0, 3, 0>>, <<3, 0, 0, 0>>, <<1, 1, 1, 1>>,
     <<0, 0, 2, 4>>, <<2, 4, 0, 0>>, <<0, 0, 4, 2>>, <<4, 2, 0, 0>>,
     <<0, 0, 2, 2>>, <<2, 2, 0, 0>>, <<0, 2, 2, 0>>, <<2, 0, 0, 2>>}

DrawLine ==
    \E l \in Lines, color \in Colors :
        Commit(drawLine(Self, l[1], l[2], l[3], l[4], color),
               [op |-> "drawLine", a |-> <<l[1], l[2], l[3], l[4], color>>], NoArg)

FillMonocolor ==
    \E color \in Colors, margin \in Margins :
        Commit(fillMonocolor(Self, color, margin),
               [op |-> "fillMonocolor", a |-> <<color, margin>>], NoArg)

PinIds == {None, PyStr}
Ports == {0, HSPI, VSPI, 3}

\* LCD(cs, dc, rst, bl, port, portrait)
Construct ==
    \E cs \in PinIds, dc \in PinIds, rst \in PinIds, bl \in PinIds,
       port \in Ports, portr \in BOOLEAN :
        CommitNew(ILI_init(cs, dc, rst, bl, port, portr),
                  [op |-> "__init__", a |-> <<cs, dc, rst, bl, port, portr>>])

BmpFile(bm, w, h) ==
    [bm |-> bm, startbit |-> 54, width |-> w, height |-> h, size |-> 54 + 2 * w * h]
Files == {BmpFile(FALSE, 10, 10), BmpFile(TRUE, 10, 10), BmpFile(TRUE, TFTWIDTH, TFTHEIGHT)}
Positions == {NoneT, [t |-> "pair", v |-> <<0, 0>>]}
BgColors == {NoneT, PyColor(SampleColor)}

RenderBmp ==
    \E f \in Files, pos \in Positions, cached \in BOOLEAN, bgcolor \in BgColors :
        Commit(renderBmp(Self, f, pos, cached, bgcolor, f \in cacheDir),
               [op |-> "renderBmp", a |-> <<f, pos, cached, bgcolor>>], NoArg)

CacheImage ==
    \E f \in Files :
        Commit(cacheImage(Self, f), [op |-> "cacheImage", a |-> <<f>>], NoArg)

\* a font 14 rows high, with a glyph of 9 rows of 8 bits and a character the
\* font has no glyph for
SampleFont == [height |-> 14, width |-> 10]
Glyphs == {[known |-> TRUE, len |-> 9, bits |-> 72], [known |-> FALSE, len |-> 0, bits |-> 0]}
Scales == {1, 6}

PrintChar ==
    \E glyph \in Glyphs, p \in Origins, scale \in Scales, bgcolor \in BgColors :
        Commit(printChar(Self, glyph, SampleFont, p[1], p[2], scale, bgcolor,
                         BLACK, <<0, 0, 0, 0, 0>>),
               [op |-> "printChar", a |-> <<glyph, p[1], p[2], scale, bgcolor>>],
               NoArg)

Responses == {<<0, 0, 0, 0, 0>>, <<255, 255, 252, 126, 252>>, <<18, 52, 248, 4, 8>>}

GetBgcolor ==
    \E p \in Origins, resp \in Responses :
        LET r == _get_bgcolor(Self, p[1], p[2], resp)
        IN  Commit(r.o, [op |-> "_get_bgcolor", a |-> <<p[1], p[2], resp>>], r.ret)

Init ==
    /\ _portrait \in BOOLEAN
    /\ curHeight = TFTHEIGHT
    /\ curWidth = TFTWIDTH
    /\ csPin \in {0, 1}
    /\ dcPin \in {0, 1}
    /\ call = [op |-> "new", a |-> NoArg]
    /\ again = FALSE
    /\ err = "none"
    /\ bus = <<>>
    /\ ret = NoArg
    /\ pins = {}
    /\ win = <<>>
    /\ cacheDir \in {{}, {BmpFile(TRUE, 10, 10)}}

Next ==
    \/ SetPortrait
    \/ DrawPixel
    \/ DrawVline
    \/ DrawHline
    \/ DrawRect
    \/ FillMonocolor
    \/ Construct
    \/ RenderBmp
    \/ GetBgcolor
    \/ CacheImage
    \/ DrawLine
    \/ PrintChar

Spec == Init /\ [][Next]_vars

----------------------------------------------------------------------------
(* the colour conversion on its own: one channel value for every value the *)
(* reduction can yield (the multiples of 8, resp. 4), and the highest value *)
(* of the first and of the last group of values that reduce alike          *)

Channel5 == {8 * k : k \in 0..31} \cup {8 * k + 7 : k \in {0, 31}}
Channel6 == {4 * k : k \in 0..63} \cup {4 * k + 3 : k \in {0, 63}}

InitColor ==
    /\ _portrait = TRUE
    /\ curHeight = TFTHEIGHT
    /\ curWidth = TFTWIDTH
    /\ csPin = 1
    /\ dcPin = 1
    /\ \E r \in Channel5, g \in Channel6, b \in Channel5 :
           call = [op |-> "color", a |-> <<r, g, b>>]
    /\ again = FALSE
    /\ err = "none"
    /\ bus = <<>>
    /\ ret = NoArg
    /\ pins = {}
    /\ win = <<>>
    /\ cacheDir = {}

\* _get_Npix_monoword(rgbTo565(r, g, b))
Monoword565 ==
    /\ call.op = "color"
    /\ CommitPure([op |-> "monoword565", a |-> call.a],
                  _get_Npix_monoword(rgbTo565(call.a[1], call.a[2], call.a[3])))

NextColor == Monoword565

SpecColor == InitColor /\ [][NextColor]_vars

----------------------------------------------------------------------------
(* what a call left on the bus *)

IsCmd(t, opcode) == t.dc = 0 /\ t.word.bytes = <<opcode>>

CountCmd(b, opcode) == Cardinality({i \in DOMAIN b : IsCmd(b[i], opcode)})

\* the position of the first command opcode in b, or 0
FirstCmd(b, opcode) ==
    IF \E i \in DOMAIN b : IsCmd(b[i], opcode)
    THEN CHOOSE i \in DOMAIN b :
             IsCmd(b[i], opcode) /\ \A j \in 1..(i - 1) : ~IsCmd(b[j], opcode)
    ELSE 0

RECURSIVE DataBytesFrom(_, _)
\* the number of data bytes in b from position i on
DataBytesFrom(b, i) ==
    IF i > Len(b) THEN 0
    ELSE (IF b[i].dc = 1 THEN WordLen(b[i].word) ELSE 0) + DataBytesFrom(b, i + 1)

\* the pixel bytes written after the window is armed (after memory write)
PixelBytes(b) ==
    IF FirstCmd(b, RAMWR) = 0 THEN 0 ELSE DataBytesFrom(b, FirstCmd(b, RAMWR) + 1)

\* the window <<x0, x1, y0, y1>> the bus carries after column-address-set and
\* row-address-set, or <<>> when none is armed
ArmedWindow(b) ==
    LET c == FirstCmd(b, CASET)
        r == FirstCmd(b, PASET)
        w == FirstCmd(b, RAMWR)
        U(q) == q[1] * 256 + q[2]
    IN  IF c = 0 \/ r = 0 \/ w = 0 \/ Len(b) < r + 1 THEN <<>>
        ELSE LET cb == b[c + 1].word.bytes
                 rb == b[r + 1].word.bytes
             IN  <<U(<<cb[1], cb[2]>>), U(<<cb[3], cb[4]>>),
                   U(<<rb[1], rb[2]>>), U(<<rb[3], rb[4]>>)>>

\* the most recent call is a solid fill of a rectangle that fits the screen:
\* drawRect with border 0 (or None), or fillMonocolor
SolidRect ==
    /\ call.op = "drawRect"
    /\ IsNone(call.a[6]) \/ call.a[6].v = 0
    /\ call.a[3] >= 2 /\ call.a[1] + call.a[3] <= curWidth
    /\ call.a[4] >= 2 /\ call.a[2] + call.a[4] <= curHeight

MarginOf(m) == IF m > 80 THEN 80 ELSE m

\* <<x, y, w, h, color>> of the solid fill
FillArgs ==
    IF call.op = "drawRect"
    THEN <<call.a[1], call.a[2], call.a[3], call.a[4], call.a[5]>>
    ELSE <<MarginOf(call.a[2]), MarginOf(call.a[2]),
           curWidth - 2 * MarginOf(call.a[2]), curHeight - 2 * MarginOf(call.a[2]),
           call.a[1]>>

SolidFill == SolidRect \/ call.op = "fillMonocolor"

----------------------------------------------------------------------------
(* claims *)

\* C1: the logical size follows the orientation: (curWidth, curHeight) is
\* (240, 320) in portrait and (320, 240) in landscape, after construction
\* and after every assignment of the portrait property.
C1_SizeFollowsOrientation ==
    <<curWidth, curHeight>> =
        IF _portrait THEN <<TFTWIDTH, TFTHEIGHT>> ELSE <<TFTHEIGHT, TFTWIDTH>>

\* C2: a solid fill of a rectangle of width w and height h writes exactly
\* 2*w*h pixel bytes after the window is armed.
C2_FillWritesTwoBytesPerPixel ==
    SolidFill => PixelBytes(bus) = 2 * FillArgs[3] * FillArgs[4]

\* C3: a solid fill issues exactly one column-address-set, one
\* row-address-set and one memory-write command, in that order, only data
\* after the memory write, and 200 pixel bytes for the window {0,0,9,9}.
C3_FillArmsWindowOnce ==
    SolidFill =>
        /\ CountCmd(bus, CASET) = 1
        /\ CountCmd(bus, PASET) = 1
        /\ CountCmd(bus, RAMWR) = 1
        /\ FirstCmd(bus, CASET) < FirstCmd(bus, PASET)
        /\ FirstCmd(bus, PASET) < FirstCmd(bus, RAMWR)
        /\ \A i \in DOMAIN bus : i > FirstCmd(bus, RAMWR) => bus[i].dc = 1
        /\ (FillArgs[1] = 0 /\ FillArgs[2] = 0 /\ FillArgs[3] = 10 /\ FillArgs[4] = 10)
               => PixelBytes(bus) = 200

\* C4: drawRect with border 0 arms the window x..x+w-1, y..y+h-1 and paints
\* every pixel of it, and no other, with color, whatever infill is.
C4_BorderlessRectIsUniformFill ==
    SolidRect =>
        /\ ArmedWindow(bus) = <<call.a[1], call.a[1] + call.a[3] - 1,
                                call.a[2], call.a[2] + call.a[4] - 1>>
        /\ \A i \in DOMAIN bus :
               i > FirstCmd(bus, RAMWR) =>
                   bus[i].word.pat = _get_Npix_monoword(call.a[5])
        /\ PixelBytes(bus) = 2 * call.a[3] * call.a[4]

\* C5: drawHline (drawVline) with a length greater than the device width
\* (height) arms a window exactly curWidth columns wide (curHeight rows tall).
C5_LineLengthClamped ==
    /\ (call.op = "drawHline" /\ call.a[3] > curWidth) =>
           /\ ArmedWindow(bus) # <<>>
           /\ ArmedWindow(bus)[2] - ArmedWindow(bus)[1] + 1 = curWidth
    /\ (call.op = "drawVline" /\ call.a[3] > curHeight) =>
           /\ ArmedWindow(bus) # <<>>
           /\ ArmedWindow(bus)[4] - ArmedWindow(bus)[3] + 1 = curHeight

\* C6: renderBmp on a file that does not start with "BM" fails with the
\* invalid-bitmap error and issues no bus transaction.
C6_BadMagicRejectedWithoutBusTraffic ==
    (call.op = "renderBmp" /\ ~call.a[1].bm) =>
        (err = "BMPvalidationError" /\ bus = <<>>)

IsSetPortrait(c) == c.op = "portrait"
IsSetPortraitTrue(c) == c.op = "portrait" /\ c.a[1] = PyBool(TRUE)

\* C7: assigning portrait = True a second time in a row leaves the portrait
\* flag, curWidth and curHeight as the first assignment left them.
C7_PortraitTrueIdempotent ==
    [][(IsSetPortraitTrue(call) /\ IsSetPortraitTrue(call'))
           => (_portrait' = _portrait /\ curWidth' = curWidth /\ curHeight' = curHeight)]_vars

\* portrait = True has been assigned twice in a row
C7_Witness ==
    IsSetPortraitTrue(call) /\ again /\ _portrait /\ curWidth = TFTWIDTH

\* the 16-bit word of an 8-bit colour
Word565(r, g, b) == (r \div 8) * 2048 + (g \div 4) * 32 + (b \div 8)

\* C8: reducing an 8-bit colour with rgbTo565 and packing it with
\* _get_Npix_monoword yields the big-endian bytes of
\* ((r>>3)<<11) | ((g>>2)<<5) | (b>>3); red, green, blue and white give
\* 0xF800, 0x07E0, 0x001F and 0xFFFF.
C8_Monoword565 ==
    call.op = "monoword565" =>
        /\ ret = <<Word565(call.a[1], call.a[2], call.a[3]) \div 256,
                   Word565(call.a[1], call.a[2], call.a[3]) % 256>>
        /\ call.a = <<255, 0, 0>> => ret = <<248, 0>>
        /\ call.a = <<0, 255, 0>> => ret = <<7, 224>>
        /\ call.a = <<0, 0, 255>> => ret = <<0, 31>>
        /\ call.a = <<255, 255, 255>> => ret = <<255, 255>>

\* a colour whose three channels all lose low bits has been packed
C8_Witness ==
    call.op = "monoword565" /\ call.a = <<104, 100, 7>> /\ ret = <<107, 32>>

\* C9: assigning a non-boolean to portrait raises PortraitBoolError, keeps
\* the portrait flag, curWidth and curHeight, and issues no register write.
C9_NonBoolPortraitRejected ==
    [][(IsSetPortrait(call') /\ ~isinstance_bool(call'.a[1]))
           => /\ err' = "PortraitBoolError"
              /\ bus' = <<>>
              /\ UNCHANGED <<_portrait, curWidth, curHeight, csPin, dcPin>>]_vars

\* the integer 1 has been assigned to portrait of a landscape instance
C9_Witness ==
    /\ IsSetPortrait(call) /\ call.a[1] = PyInt(1)
    /\ err = "PortraitBoolError" /\ ~_portrait

BadCtorArgs(a) == IsNone(a[1]) \/ IsNone(a[2]) \/ (a[5] # HSPI /\ a[5] # VSPI)

\* C10: constructing the driver with cs or dc None, or with a port that is
\* neither HSPI nor VSPI, fails with RuntimeError before any pin is
\* configured and before any bus transaction.
C10_BadConfigurationRejectedFirst ==
    (call.op = "__init__" /\ BadCtorArgs(call.a)) =>
        (err = "RuntimeError" /\ pins = {} /\ bus = <<>>)

\* a construction with valid pins and a port that is no SPI bus has failed
C10_Witness ==
    /\ call.op = "__init__" /\ ~IsNone(call.a[1]) /\ ~IsNone(call.a[2])
    /\ call.a[5] = 3 /\ err = "RuntimeError"

-----------------------------------------------------------------------------
(* Controller initialisation *)

\* what the controller is to receive while an instance is constructed: each
\* entry is <<dc, byte>>, and the byte -1 stands for any one data byte
InitSequence ==
    << <<0, LCDOFF>>, <<0, SWRESET>>, <<0, MADCTL>>, <<1, -1>>, <<0, PTLON>>,
       <<0, PIXFMT>>, <<1, 85>>, <<0, GAMMASET>>, <<1, 1>>, <<0, ETMOD>>,
       <<1, 7>>, <<0, SLPOUT>>, <<0, LCDON>>, <<0, RAMWR>> >>

\* transaction t carries entry e of a sequence such as InitSequence
Carries(t, e) ==
    /\ t.dc = e[1]
    /\ Len(t.word.bytes) = 1
    /\ (e[2] = -1 \/ t.word.bytes[1] = e[2])

\* the bus record b ends with the transactions of seq, in order
EndsWith(b, seq) ==
    /\ Len(b) >= Len(seq)
    /\ \A i \in 1..Len(seq) : Carries(b[Len(b) - Len(seq) + i], seq[i])

\* C11: constructing an instance with a chip-select pin, a data/command pin
\* and one of the two supported ports completes without an error, and the
\* controller has then received, after the reset, display off, software
\* reset, memory access control, partial mode on, pixel format 0x55, gamma
\* set 0x01, entry mode 0x07, sleep out, display on and memory write, in
\* that order.
C11_ConstructionInitialisesController ==
    (call.op = "__init__" /\ ~BadCtorArgs(call.a)) =>
        (err = "none" /\ EndsWith(bus, InitSequence))

-----------------------------------------------------------------------------
(* Window arming *)

\* the four data bytes of a first and a last coordinate, high byte first
CoordBytes(first, last) ==
    <<(first \div 256) % 256, first % 256, (last \div 256) % 256, last % 256>>

\* from position i on, b carries: column address set, the bytes of columns
\* w[1]..w[2], row address set, the bytes of rows w[3]..w[4], memory write
ArmsAt(b, i, w) ==
    /\ Len(b) >= i + 4
    /\ IsCmd(b[i], CASET)
    /\ b[i + 1].dc = 1 /\ b[i + 1].word.bytes = CoordBytes(w[1], w[2])
    /\ IsCmd(b[i + 2], PASET)
    /\ b[i + 3].dc = 1 /\ b[i + 3].word.bytes = CoordBytes(w[3], w[4])
    /\ IsCmd(b[i + 4], RAMWR)

\* C12: whenever a call hands a window to _set_window (win holds the first
\* and last column, then the first and last row), the bus carries column
\* address set with the two columns as four bytes, high byte first, row
\* address set with the two rows likewise, and then memory write.
C12_WindowArmedInOrder ==
    win # <<>> => \E i \in DOMAIN bus : ArmsAt(bus, i, win)

-----------------------------------------------------------------------------
(* Bus transactions *)

\* C13: a call that put transactions on the bus leaves chip-select
\* deasserted (high): every transaction asserts chip-select, sets
\* data/command low for an opcode and high for data, transfers, and
\* deasserts chip-select again.
C13_ChipSelectDeassertedBetweenTransactions ==
    bus # <<>> =>
        /\ csPin = 1
        /\ dcPin = bus[Len(bus)].dc

-----------------------------------------------------------------------------
(* Windows stay on the screen *)

DrawingOps == {"drawPixel", "drawHline", "drawVline", "drawRect", "fillMonocolor"}

\* C14: every window a drawing call hands to _set_window (first and last
\* column, first and last row) lies on the screen and is not empty:
\* 0 <= x0 <= x1 < curWidth and 0 <= y0 <= y1 < curHeight.
C14_WindowOnScreen ==
    (call.op \in DrawingOps /\ win # <<>>) =>
        /\ 0 <= win[1] /\ win[1] <= win[2] /\ win[2] < curWidth
        /\ 0 <= win[3] /\ win[3] <= win[4] /\ win[4] < curHeight

-----------------------------------------------------------------------------
(* Pixel read-back *)

\* the RGB565 word of a five-byte memory read b: bytes 1 and 2 are dropped,
\* byte 3 gives red, byte 4 green and byte 5 blue
ReadBack565(b) ==
    BitOr(BitOr(Shl((b[3] \div 4) % 32, 11), Shl((b[4] \div 2) % 64, 5)),
          (b[5] \div 4) % 32)

\* C15: reading back the pixel at (x, y) returns the two bytes of
\* (((b2 >> 2) & 0x1F) << 11) | (((b3 >> 1) & 0x3F) << 5) | ((b4 >> 2) & 0x1F)
\* for the five bytes b0..b4 the controller answers, whatever x and y are.
C15_ReadBackDecodesLastThreeBytes ==
    call.op = "_get_bgcolor" =>
        (err = "none" /\ ret = packH(ReadBack565(call.a[3])))

-----------------------------------------------------------------------------
(* The image cache *)

\* C16: caching a bitmap succeeds and leaves a record of it in the cache
\* directory, and rendering a bitmap from its record arms the window a
\* direct render of the bitmap arms and streams every pixel byte of it,
\* 2 * width * height bytes.
C16_CachedRenderEqualsDirectRender ==
    /\ (call.op = "cacheImage" /\ call.a[1].bm) =>
           (err = "none" /\ call.a[1] \in cacheDir)
    /\ (call.op = "renderBmp" /\ call.a[3] /\ call.a[1] \in cacheDir) =>
           /\ ArmedWindow(bus) # <<>>
           /\ ArmedWindow(bus) =
                  ArmedWindow(renderBmp(Self, call.a[1], call.a[2], FALSE,
                                        call.a[4], FALSE).bus)
           /\ PixelBytes(bus) = 2 * call.a[1].width * call.a[1].height

-----------------------------------------------------------------------------
(* Straight lines *)

\* the thickness and the length a horizontal or vertical line call is to
\* draw: thickness at most 10, length at most the screen along the line
LineThickness == Min(call.a[5], 10)
LineLength ==
    Min(call.a[3], IF call.op = "drawHline" THEN curWidth ELSE curHeight)

\* C17: a horizontal or vertical line call with length >= 1 and
\* width >= 1 arms a window of thickness x length pixels, the thickness
\* being at most 10, and writes exactly 2 * thickness * length data bytes
\* after memory write.
C17_LineWritesTwoBytesPerPixel ==
    (call.op \in {"drawHline", "drawVline"} /\ call.a[3] >= 1 /\ call.a[5] >= 1) =>
        /\ ArmedWindow(bus) # <<>>
        /\ LET w == ArmedWindow(bus)
           IN  (w[2] - w[1] + 1) * (w[4] - w[3] + 1) = LineThickness * LineLength
        /\ PixelBytes(bus) = 2 * LineThickness * LineLength

-----------------------------------------------------------------------------
(* Bitmap rendering *)

\* the margins left and right of, and above and below, window w differ by
\* at most one pixel
Centred(w) ==
    /\ w[1] - (curWidth - 1 - w[2]) \in {-1, 0, 1}
    /\ w[3] - (curHeight - 1 - w[4]) \in {-1, 0, 1}

\* C18: rendering a bitmap whose header gives width w and height h arms a
\* window of exactly w * h pixels, and the window is centred on the screen
\* when no position is given.
C18_BitmapWindowHoldsImage ==
    (call.op = "renderBmp" /\ call.a[1].bm) =>
        /\ ArmedWindow(bus) # <<>>
        /\ LET w == ArmedWindow(bus)
           IN  /\ (w[2] - w[1] + 1) * (w[4] - w[3] + 1)
                      = call.a[1].width * call.a[1].height
               /\ IsNone(call.a[2]) => Centred(w)

\* C19: streaming a bitmap terminates: rendering a valid bitmap returns
\* normally, after a write for each chunk of the file and no write once the
\* bytes of the file are exhausted.
C19_RenderBmpReturns ==
    (call.op = "renderBmp" /\ call.a[1].bm) =>
        /\ err = "none"
        /\ PixelBytes(bus) = call.a[1].size - call.a[1].startbit

-----------------------------------------------------------------------------
(* Rectangle borders *)

\* the width of the rectangle of the most recent drawRect call, clamped to
\* the screen and to at least 2
ClampedRectWidth ==
    IF call.a[3] > curWidth THEN curWidth
    ELSE IF call.a[3] < 2 THEN 2 ELSE call.a[3]

\* C20: a drawRect call with a border of 1 or more draws its bands, and the
\* thickness of the first band it draws, the rows of the top band, is at
\* most 10 and at most half the clamped width of the rectangle.
C20_BorderThicknessBounded ==
    (call.op = "drawRect" /\ ~IsNone(call.a[6]) /\ call.a[6].v >= 1) =>
        /\ ArmedWindow(bus) # <<>>
        /\ LET w == ArmedWindow(bus)
               thickness == w[4] - w[3] + 1
           IN  thickness <= 10 /\ 2 * thickness <= ClampedRectWidth

-----------------------------------------------------------------------------
(* Lines between two points *)

\* the windows <<first column, last column, first row, last row>> armed on b
WindowsOn(b) ==
    {w \in {<<b[i + 1].word.bytes[1] * 256 + b[i + 1].word.bytes[2],
              b[i + 1].word.bytes[3] * 256 + b[i + 1].word.bytes[4],
              b[i + 3].word.bytes[1] * 256 + b[i + 3].word.bytes[2],
              b[i + 3].word.bytes[3] * 256 + b[i + 3].word.bytes[4]>> :
                i \in {j \in DOMAIN b : Len(b) >= j + 4 /\ IsCmd(b[j], CASET)
                                        /\ IsCmd(b[j + 2], PASET)}} :
        \E i \in DOMAIN b : ArmsAt(b, i, w)}

\* pixel (px, py) lies in a window armed on b
Painted(b, px, py) ==
    \E w \in WindowsOn(b) : w[1] <= px /\ px <= w[2] /\ w[3] <= py /\ py <= w[4]

\* C21: drawLine does not depend on the drawing direction: the call puts on
\* the bus what the call with the endpoints exchanged puts there, and the
\* windows it arms contain both endpoints.
C21_LineIndependentOfDirection ==
    call.op = "drawLine" =>
        /\ bus = drawLine(Self, call.a[3], call.a[4], call.a[1], call.a[2],
                          call.a[5]).bus
        /\ Painted(bus, call.a[1], call.a[2])
        /\ Painted(bus, call.a[3], call.a[4])

-----------------------------------------------------------------------------
(* The orientation register *)

\* the value the transactions of b leave in the memory access control
\* register: the data byte that follows the last opcode, -1 when b does not
\* address the register, -2 when the last opcode is followed by no value
MadctlLeft(b) ==
    LET S == {i \in DOMAIN b : IsCmd(b[i], MADCTL)}
    IN  IF S = {} THEN -1
        ELSE LET i == CHOOSE k \in S : \A j \in S : j <= k
             IN  IF i < Len(b) /\ b[i + 1].dc = 1 /\ Len(b[i + 1].word.bytes) = 1
                 THEN b[i + 1].word.bytes[1]
                 ELSE -2

\* the graphics pattern of the current orientation
GraphicsPattern == IF _portrait THEN 72 ELSE 40

\* C22: when a drawing, text or bitmap operation has returned or failed,
\* the memory access control register holds the graphics pattern of the
\* current orientation if the operation addressed the register at all:
\* neither the character nor the image pattern, nor a write cut short, is
\* left behind.
C22_GraphicsOrientationRestored ==
    call.op \in {"drawRect", "printChar", "renderBmp"} =>
        MadctlLeft(bus) \in {-1, GraphicsPattern}

====
